---------------------------- MODULE Spec2Model ----------------------------
(***************************************************************************)
(* document-features: extraction of the `##` / `#!` documentation comments *)
(* of a Cargo.toml into Markdown (src/lib.rs, process_toml and             *)
(* get_balanced).                                                          *)
(*                                                                         *)
(* A Rust string is modelled as the sequence of its characters, each a     *)
(* one-character TLA+ string.  Two characters cannot be written inside a   *)
(* TLA+ string literal and are denoted by a name: the backtick (Backtick)  *)
(* and the em dash (EmDash).  The manifest is the sequence of its physical *)
(* lines (what str::lines yields).                                         *)
(***************************************************************************)
EXTENDS Integers, Sequences, FiniteSets, TLC

(***************************************************************************)
(* Bounds of the model.                                                    *)
(***************************************************************************)
\* The longest manifest, in physical lines.
MaxLines == 4

(***************************************************************************)
(* Characters and string literals of the source.                           *)
(***************************************************************************)
Backtick == "U+0060"
EmDash == "U+2014"
\* char::is_whitespace, on the characters a manifest of the model holds
WhiteSpace == {" ", "\t", "\n", "\r"}

(***************************************************************************)
(* The str methods process_toml and get_balanced use.                      *)
(***************************************************************************)
\* s[from..]
From(s, from) == SubSeq(s, from, Len(s))

\* Whether pattern p stands at place i of s.
matches_at(s, p, i) ==
    /\ i + Len(p) - 1 <= Len(s)
    /\ \A k \in 1..Len(p) : s[i + k - 1] = p[k]

\* str::starts_with / str::ends_with
starts_with(s, p) == matches_at(s, p, 1)
ends_with(s, p) == Len(s) >= Len(p) /\ matches_at(s, p, Len(s) - Len(p) + 1)

\* str::find(p) / str::rfind(p): the first place of p in s from place i on, the
\* last place of p in s up to place i; 0 for None
RECURSIVE find_from(_, _, _)
find_from(s, p, i) ==
    IF i + Len(p) - 1 > Len(s) THEN 0
    ELSE IF matches_at(s, p, i) THEN i
    ELSE find_from(s, p, i + 1)
find(s, p) == find_from(s, p, 1)

RECURSIVE rfind_from(_, _, _)
rfind_from(s, p, i) ==
    IF i < 1 THEN 0
    ELSE IF matches_at(s, p, i) THEN i
    ELSE rfind_from(s, p, i - 1)
rfind(s, p) == rfind_from(s, p, Len(s) - Len(p) + 1)

\* The first place from i on, and the last place up to i, of a character of s
\* outside the set cs (Len(s) + 1 and 0 when there is none).
RECURSIVE first_outside(_, _, _)
first_outside(s, cs, i) ==
    IF i > Len(s) \/ s[i] \notin cs THEN i ELSE first_outside(s, cs, i + 1)

RECURSIVE last_outside(_, _, _)
last_outside(s, cs, i) ==
    IF i < 1 \/ s[i] \notin cs THEN i ELSE last_outside(s, cs, i - 1)

\* str::trim
trim(s) == SubSeq(s, first_outside(s, WhiteSpace, 1), last_outside(s, WhiteSpace, Len(s)))

\* str::trim_matches(|c| c == '"' || c == '\'')
trim_matches_quotes(s) ==
    SubSeq(s, first_outside(s, {"\"", "'"}, 1), last_outside(s, {"\"", "'"}, Len(s)))

\* str::split(","): the pieces of s between the commas, in order
RECURSIVE split_comma(_)
split_comma(s) ==
    LET i == find(s, <<",">>)
    IN  IF i = 0 THEN <<s>>
        ELSE <<SubSeq(s, 1, i - 1)>> \o split_comma(From(s, i + 1))

(***************************************************************************)
(* The line iterator of process_toml: lines().map(str::trim).filter(..).   *)
(* It is lazy: `lines` holds the physical lines not yet pulled.            *)
(***************************************************************************)
\* the filter's closure, on a trimmed line
is_kept(l) ==
    /\ l # <<>>
    /\ \/ ~starts_with(l, <<"#">>)
       \/ starts_with(l, <<"#","#">>)
       \/ starts_with(l, <<"#","!">>)

\* The physical lines from the first one the filter keeps (empty: none is kept).
RECURSIVE skip_filtered(_)
skip_filtered(ls) ==
    IF ls = <<>> THEN <<>>
    ELSE IF is_kept(trim(Head(ls))) THEN ls
    ELSE skip_filtered(Tail(ls))

\* lines.next(): is_some, the item, and the iterator afterwards
has_next(ls) == skip_filtered(ls) # <<>>
next_item(ls) == trim(Head(skip_filtered(ls)))
after_next(ls) == Tail(skip_filtered(ls))

(***************************************************************************)
(* get_balanced                                                            *)
(***************************************************************************)
\* The place of the first `#` of l from i on that is outside double quotes (q:
\* inside them at i); 0 if there is none.
RECURSIVE hash_outside_quotes(_, _, _)
hash_outside_quotes(l, i, q) ==
    IF i > Len(l) THEN 0
    ELSE IF l[i] = "\"" THEN hash_outside_quotes(l, i + 1, ~q)
    ELSE IF l[i] = "#" /\ ~q THEN i
    ELSE hash_outside_quotes(l, i + 1, q)

\* strip_comment keeping a `#` that lies inside a double-quoted string.
strip_comment_outside_quotes(l) ==
    LET i == hash_outside_quotes(l, 1, FALSE) IN IF i = 0 THEN l ELSE SubSeq(l, 1, i - 1)

\* l.split_once('#').map_or(l, |(x, _)| x)
strip_comment(l) ==
    LET i == find(l, <<"#">>) IN IF i = 0 THEN l ELSE SubSeq(l, 1, i - 1)

\* The `for b in line.as_bytes()` loop from byte i on: whether it returned
\* Err("unbalanced source"), and in_quote and level after it.
RECURSIVE scan_bytes(_, _, _, _, _)
scan_bytes(line, i, in_quote, level, last_slash) ==
    IF i > Len(line)
    THEN [err |-> FALSE, in_quote |-> in_quote, level |-> level]
    ELSE LET b == line[i] IN
         IF last_slash
         THEN scan_bytes(line, i + 1, in_quote, level, FALSE)
         ELSE IF in_quote
         THEN IF b = "\\" THEN scan_bytes(line, i + 1, in_quote, level, TRUE)
              ELSE IF b \in {"\"", "'"} THEN scan_bytes(line, i + 1, FALSE, level, FALSE)
              ELSE scan_bytes(line, i + 1, in_quote, level, FALSE)
         ELSE IF b = "\"" THEN scan_bytes(line, i + 1, TRUE, level, FALSE)
              ELSE IF b \in {"{", "["} THEN scan_bytes(line, i + 1, in_quote, level + 1, FALSE)
              ELSE IF b \in {"}", "]"}
              THEN IF level = 0
                   THEN [err |-> TRUE, in_quote |-> in_quote, level |-> level]
                   ELSE scan_bytes(line, i + 1, in_quote, level - 1, FALSE)
              ELSE scan_bytes(line, i + 1, in_quote, level, FALSE)

\* The `loop` of get_balanced, entered with `line` to scan: ok (Ok or Err),
\* the value returned, and the iterator afterwards.
RECURSIVE balanced_loop(_, _, _, _, _)
balanced_loop(line, result, in_quote, level, ls) ==
    LET s == scan_bytes(line, 1, in_quote, level, FALSE) IN
    IF s.err THEN [ok |-> FALSE, value |-> <<>>, lines |-> ls]
    ELSE IF s.level = 0 THEN [ok |-> TRUE, value |-> result, lines |-> ls]
    ELSE IF ~has_next(ls) THEN [ok |-> FALSE, value |-> <<>>, lines |-> <<>>]
    ELSE LET l == strip_comment(next_item(ls))
         IN  balanced_loop(l, result \o l, s.in_quote, s.level, after_next(ls))

get_balanced(first_line, ls) ==
    LET line == strip_comment(first_line)
    IN  balanced_loop(line, line, FALSE, 0, ls)

(***************************************************************************)
(* The manifests of the model: every sequence of at most MaxLines physical *)
(* lines drawn from a catalogue of lines.  RawLines holds the doc comments *)
(* and the [features] table; DepLines the tables and the dependencies.     *)
(***************************************************************************)
RawLines == {
    <<"#","!"," ","a","b","c">>,
    <<"#","!">>,
    <<"#","#"," ","1","2","3">>,
    <<"#","#">>,
    <<"#","#","#">>,
    <<"#"," ","f","f">>,
    <<" ","[","f","e","a","t","u","r","e","s","]"," ","#","x","y","z">>,
    <<"[","d","e","p","e","n","d","e","n","c","i","e","s",".","d","e","p","3","]">>,
    <<"f","o","o"," ","="," ","[","]">>,
    <<"d","e","f","a","u","l","t"," ","="," ","[","\"","f","o","o","\"",","," ","'","d","e","p","3","'","]">>,
    <<"[","a","b","c","d">>,
    <<"e","f","g","h">> }

DepLines == {
    <<"#","!"," ","a","b","c">>,
    <<"#","#"," ","1","2","3">>,
    <<"[","f","e","a","t","u","r","e","s","]">>,
    <<"[","d","e","p","e","n","d","e","n","c","i","e","s","]">>,
    <<"[","d","e","p","e","n","d","e","n","c","i","e","s",".","d","e","p","3","]">>,
    <<"[","a",".","b","]">>,
    <<"[","a","b","c","d">>,
    <<"f","o","o"," ","="," ","[","]">>,
    <<"d","e","p","1"," ","="," ","{","o","p","t","i","o","n","a","l","=","t","r","u","e","}">>,
    <<"d"," ","="," ","{","a","=","\"","o","p","t","i","o","n","a","l","\"",",","o","p","t","i","o","n","a","l","=","t","r","u","e","}">>,
    <<"b","a","r"," ","="," ","[">>,
    <<"]">> }

(***************************************************************************)
(* process_toml                                                            *)
(***************************************************************************)
VARIABLES
    lines,             \* the iterator `lines`: the physical lines not yet pulled
    top_comment,       \* the pending `#!` block
    current_comment,   \* the pending `##` block
    features,          \* the entries: (name, top comment, comment)
    default_features,  \* the names the `default` keys of [features] list
    current_table,     \* the path of the last table header
    pc,                \* "loop": in the while loop; "done": returned
    ret,               \* the value returned: Ok(text) or Err(text)
    cargo_toml,        \* the argument: the physical lines of the manifest text
    earlier,           \* what an earlier call on the same text returned, if any
    key,               \* the text before "=" of the key/value line being read
    gb_pc,             \* get_balanced: "idle", "scan" (in the for loop), "Ok", "Err"
    bytes,             \* get_balanced: the bytes of `line` the for loop has yet to see
    result,            \* get_balanced: `result`
    in_quote,          \* get_balanced: `in_quote`
    level,             \* get_balanced: `level`
    last_slash         \* get_balanced: `last_slash`

\* the state of a call of get_balanced
balanced_vars == <<key, gb_pc, bytes, result, in_quote, level, last_slash>>

vars == <<lines, top_comment, current_comment, features, default_features,
          current_table, pc, ret, cargo_toml, earlier, balanced_vars>>

\* The state as the while loop is first reached, on a manifest over `catalogue`.
InitOn(catalogue) ==
    /\ \E n \in 0..MaxLines : cargo_toml \in [1..n -> catalogue]
    /\ earlier = [kind |-> "None", text |-> <<>>]
    /\ lines = cargo_toml
    /\ key = <<>>
    /\ gb_pc = "idle"
    /\ bytes = <<>>
    /\ result = <<>>
    /\ in_quote = FALSE
    /\ level = 0
    /\ last_slash = FALSE
    /\ top_comment = <<>>
    /\ current_comment = <<>>
    /\ features = <<>>
    /\ default_features = {}
    /\ current_table = <<>>
    /\ pc = "loop"
    /\ ret = [kind |-> "None", text |-> <<>>]

Init == InitOn(RawLines)
InitDeps == InitOn(DepLines)

\* The line of this iteration: `while let Some(line) = lines.next()`.
line == next_item(lines)

\* Err recording the error without leaving the loop.
Err_and_continue(text) == pc' = pc /\ ret' = [kind |-> "Err", text |-> text]

\* `return Err(text)`
Err(text) == pc' = "done" /\ ret' = [kind |-> "Err", text |-> text]

\* The test of lines 194 and 202 negated: x, the text after the marker, is
\* empty or starts with a space.
is_doc_comment(x) == x = <<>> \/ starts_with(x, <<" ">>)

\* top_comment_line without the test of current_comment.
top_comment_line_unchecked(x) ==
    /\ lines' = after_next(lines)
    /\ IF ~is_doc_comment(x)
       THEN UNCHANGED <<top_comment, current_comment, features,
                        default_features, current_table, pc, ret>>
       ELSE /\ top_comment' = top_comment \o x \o <<"\n">>
            /\ UNCHANGED <<current_comment, features, default_features,
                           current_table, pc, ret>>

\* top_comment_line testing current_comment before anything else.
top_comment_line_mix_first(x) ==
    /\ lines' = after_next(lines)
    /\ IF current_comment # <<>>
       THEN /\ Err(<<"C","a","n","n","o","t"," ","m","i","x"," ","#","#"," ","a","n","d"," ","#","!"," ","c","o","m","m","e","n","t","s"," ","b","e","t","w","e","e","n"," ","f","e","a","t","u","r","e","s",".">>)
            /\ UNCHANGED <<top_comment, current_comment, features,
                           default_features, current_table>>
       ELSE IF ~is_doc_comment(x)
       THEN UNCHANGED <<top_comment, current_comment, features,
                        default_features, current_table, pc, ret>>
       ELSE /\ top_comment' = top_comment \o x \o <<"\n">>
            /\ UNCHANGED <<current_comment, features, default_features,
                           current_table, pc, ret>>

\* The branch of a `#!` line, x the text after the marker.
top_comment_line(x) ==
    /\ lines' = after_next(lines)
    /\ IF ~is_doc_comment(x)
       THEN \* continue: it's not a doc comment
            UNCHANGED <<top_comment, current_comment, features,
                        default_features, current_table, pc, ret>>
       ELSE IF current_comment # <<>>
       THEN /\ Err(<<"C","a","n","n","o","t"," ","m","i","x"," ","#","#"," ","a","n","d"," ","#","!"," ","c","o","m","m","e","n","t","s"," ","b","e","t","w","e","e","n"," ","f","e","a","t","u","r","e","s",".">>)
            /\ UNCHANGED <<top_comment, current_comment, features,
                           default_features, current_table>>
       ELSE /\ top_comment' = top_comment \o x \o <<"\n">>
            /\ UNCHANGED <<current_comment, features, default_features,
                           current_table, pc, ret>>

\* line.strip_prefix("#!")
TopCommentLine ==
    /\ pc = "loop" /\ has_next(lines)
    /\ starts_with(line, <<"#","!">>)
    /\ top_comment_line(From(line, 3))
    /\ UNCHANGED <<cargo_toml, earlier, balanced_vars>>

\* current_comment_line refusing a `##` line while a `#!` block is pending.
current_comment_line_checked(x) ==
    /\ lines' = after_next(lines)
    /\ IF ~is_doc_comment(x)
       THEN UNCHANGED <<top_comment, current_comment, features,
                        default_features, current_table, pc, ret>>
       ELSE IF top_comment # <<>>
       THEN /\ Err(<<"C","a","n","n","o","t"," ","m","i","x"," ","#","#"," ","a","n","d"," ","#","!"," ","c","o","m","m","e","n","t","s"," ","b","e","t","w","e","e","n"," ","f","e","a","t","u","r","e","s",".">>)
            /\ UNCHANGED <<top_comment, current_comment, features,
                           default_features, current_table>>
       ELSE /\ current_comment' = current_comment \o <<" ">> \o x \o <<"\n">>
            /\ UNCHANGED <<top_comment, features, default_features,
                           current_table, pc, ret>>

\* The branch of a `##` line, x the text after the marker.
current_comment_line(x) ==
    /\ lines' = after_next(lines)
    /\ IF ~is_doc_comment(x)
       THEN \* continue: it's not a doc comment
            UNCHANGED <<top_comment, current_comment, features,
                        default_features, current_table, pc, ret>>
       ELSE /\ current_comment' = current_comment \o <<" ">> \o x \o <<"\n">>
            /\ UNCHANGED <<top_comment, features, default_features,
                           current_table, pc, ret>>

\* line.strip_prefix("##")
CurrentCommentLine ==
    /\ pc = "loop" /\ has_next(lines)
    /\ ~starts_with(line, <<"#","!">>)
    /\ starts_with(line, <<"#","#">>)
    /\ current_comment_line(From(line, 3))
    /\ UNCHANGED <<cargo_toml, earlier, balanced_vars>>

\* features.push((dep.trim(), take(&mut top_comment), take(&mut current_comment)))
push_feature(dep) ==
    /\ features' = Append(features, [name |-> trim(dep), top |-> top_comment,
                                     comment |-> current_comment])
    /\ top_comment' = <<>>
    /\ current_comment' = <<>>

\* table_dep without the test of the table before the dot.
table_dep_any_table(table) ==
    LET j == rfind(table, <<".">>) IN
    IF j # 0
    THEN [some |-> TRUE, dep |-> From(table, j + 1)]
    ELSE [some |-> FALSE, dep |-> <<>>]

\* The dependency a table path declares: rsplit_once(".") and the test of the
\* table before the dot; [some |-> FALSE] for None.
table_dep(table) ==
    LET j == rfind(table, <<".">>) IN
    IF j # 0 /\ ends_with(trim(SubSeq(table, 1, j - 1)), <<"d","e","p","e","n","d","e","n","c","i","e","s">>)
    THEN [some |-> TRUE, dep |-> From(table, j + 1)]
    ELSE [some |-> FALSE, dep |-> <<>>]

\* The branch of a table header, table the text after the "[".
table_line(table) ==
    /\ lines' = after_next(lines)
    /\ LET i == find(table, <<"]">>) IN
       IF i = 0
       THEN /\ Err(<<"P","a","r","s","e"," ","e","r","r","o","r"," ","w","h","i","l","e"," ","p","a","r","s","i","n","g"," ","l","i","n","e",":"," ">> \o line)
            /\ UNCHANGED <<top_comment, current_comment, features,
                           default_features, current_table>>
       ELSE LET t == trim(SubSeq(table, 1, i - 1)) IN
            /\ current_table' = t
            /\ UNCHANGED default_features
            /\ IF current_comment # <<>>
               THEN IF table_dep(t).some
                    THEN /\ push_feature(table_dep(t).dep)
                         /\ UNCHANGED <<pc, ret>>
                    ELSE /\ Err(<<"N","o","t"," ","a"," ","f","e","a","t","u","r","e",":"," ">> \o <<Backtick>> \o line \o <<Backtick>>)
                         /\ UNCHANGED <<top_comment, current_comment, features>>
               ELSE UNCHANGED <<top_comment, current_comment, features, pc, ret>>

\* line.strip_prefix("[")
TableLine ==
    /\ pc = "loop" /\ has_next(lines)
    /\ ~starts_with(line, <<"#","!">>) /\ ~starts_with(line, <<"#","#">>)
    /\ starts_with(line, <<"[">>)
    /\ table_line(From(line, 2))
    /\ UNCHANGED <<cargo_toml, earlier, balanced_vars>>

\* default_items without trim_matches: the items keep their quotes.
default_items_quoted(rest) ==
    LET t == trim(rest)
        r == From(t, 2)
        inner == SubSeq(r, 1, Len(r) - 1)
        parts == split_comma(inner)
    IN  IF starts_with(t, <<"[">>) /\ ends_with(r, <<"]">>)
        THEN [some |-> TRUE,
              items |-> {trim(parts[k]) : k \in DOMAIN parts} \ {<<>>}]
        ELSE [some |-> FALSE, items |-> {}]

\* The items of a `default` value: strip_prefix("["), strip_suffix("]"),
\* split(","), each trimmed of white space and quotes, the empty ones dropped;
\* [some |-> FALSE] when the value is not a bracketed list.
default_items(rest) ==
    LET t == trim(rest)
        r == From(t, 2)
        inner == SubSeq(r, 1, Len(r) - 1)
        parts == split_comma(inner)
    IN  IF starts_with(t, <<"[">>) /\ ends_with(r, <<"]">>)
        THEN [some |-> TRUE,
              items |-> {trim(trim_matches_quotes(trim(parts[k]))) : k \in DOMAIN parts}
                            \ {<<>>}]
        ELSE [some |-> FALSE, items |-> {}]

\* rest.split_once("optional").and_then(|(_, r)| r.trim().strip_prefix("="))
\*     .map_or(false, |r| r.trim().starts_with("true"))
is_optional(rest) ==
    LET i == find(rest, <<"o","p","t","i","o","n","a","l">>)
        r == trim(From(rest, i + Len(<<"o","p","t","i","o","n","a","l">>)))
    IN  /\ i # 0
        /\ starts_with(r, <<"=">>)
        /\ starts_with(trim(From(r, 2)), <<"t","r","u","e">>)

\* associate without the test that the table is [features].
associate_any_table(dep, rest) ==
    IF current_comment = <<>>
    THEN UNCHANGED <<top_comment, current_comment, features, pc, ret>>
    ELSE IF ends_with(current_table, <<"d","e","p","e","n","d","e","n","c","i","e","s">>) /\ ~is_optional(rest)
    THEN /\ Err(<<"D","e","p","e","n","d","e","n","c","y"," ">> \o trim(dep) \o <<" ","i","s"," ","n","o","t"," ","a","n"," ","o","p","t","i","o","n","a","l"," ","d","e","p","e","n","d","e","n","c","y">>)
         /\ UNCHANGED <<top_comment, current_comment, features>>
    ELSE /\ push_feature(dep)
         /\ UNCHANGED <<pc, ret>>

\* associate without its first test: an entry for every key, commented or not.
associate_uncommented(dep, rest) ==
    IF ends_with(current_table, <<"d","e","p","e","n","d","e","n","c","i","e","s">>) /\ ~is_optional(rest)
    THEN /\ Err(<<"D","e","p","e","n","d","e","n","c","y"," ">> \o trim(dep) \o <<" ","i","s"," ","n","o","t"," ","a","n"," ","o","p","t","i","o","n","a","l"," ","d","e","p","e","n","d","e","n","c","y">>)
         /\ UNCHANGED <<top_comment, current_comment, features>>
    ELSE IF ~ends_with(current_table, <<"d","e","p","e","n","d","e","n","c","i","e","s">>) /\ current_table # <<"f","e","a","t","u","r","e","s">>
    THEN /\ Err(<<"C","o","m","m","e","n","t"," ","c","a","n","n","o","t"," ","b","e"," ","a","s","s","o","c","i","a","t","e","d"," ","w","i","t","h"," ","a"," ","f","e","a","t","u","r","e",":">> \o current_comment)
         /\ UNCHANGED <<top_comment, current_comment, features>>
    ELSE /\ push_feature(dep)
         /\ UNCHANGED <<pc, ret>>

\* The `if !current_comment.is_empty()` block of a key/value line: the key dep
\* with the value rest, under current_table.
associate(dep, rest) ==
    IF current_comment = <<>>
    THEN UNCHANGED <<top_comment, current_comment, features, pc, ret>>
    ELSE IF ends_with(current_table, <<"d","e","p","e","n","d","e","n","c","i","e","s">>) /\ ~is_optional(rest)
    THEN /\ Err(<<"D","e","p","e","n","d","e","n","c","y"," ">> \o trim(dep) \o <<" ","i","s"," ","n","o","t"," ","a","n"," ","o","p","t","i","o","n","a","l"," ","d","e","p","e","n","d","e","n","c","y">>)
         /\ UNCHANGED <<top_comment, current_comment, features>>
    ELSE IF ~ends_with(current_table, <<"d","e","p","e","n","d","e","n","c","i","e","s">>) /\ current_table # <<"f","e","a","t","u","r","e","s">>
    THEN /\ Err(<<"C","o","m","m","e","n","t"," ","c","a","n","n","o","t"," ","b","e"," ","a","s","s","o","c","i","a","t","e","d"," ","w","i","t","h"," ","a"," ","f","e","a","t","u","r","e",":">> \o current_comment)
         /\ UNCHANGED <<top_comment, current_comment, features>>
    ELSE /\ push_feature(dep)
         /\ UNCHANGED <<pc, ret>>

\* key_value_line leaving in the iterator the lines get_balanced pulled.
key_value_line_rewound(dep, bal) ==
    LET rest == bal.value
        is_default == current_table = <<"f","e","a","t","u","r","e","s">> /\ trim(dep) = <<"d","e","f","a","u","l","t">>
    IN  /\ lines' = after_next(lines)
        /\ UNCHANGED current_table
        /\ IF ~bal.ok
           THEN /\ Err(<<"P","a","r","s","e"," ","e","r","r","o","r"," ","w","h","i","l","e"," ","p","a","r","s","i","n","g"," ","d","e","p","e","n","d","e","n","c","y"," ">> \o dep
                           \o <<":"," ">> \o <<"u","n","b","a","l","a","n","c","e","d"," ","s","o","u","r","c","e">>)
                /\ UNCHANGED <<top_comment, current_comment, features, default_features>>
           ELSE IF is_default /\ ~default_items(rest).some
           THEN /\ Err(<<"P","a","r","s","e"," ","e","r","r","o","r"," ","w","h","i","l","e"," ","p","a","r","s","i","n","g"," ","d","e","p","e","n","d","e","n","c","y"," ">> \o dep)
                /\ UNCHANGED <<top_comment, current_comment, features, default_features>>
           ELSE /\ default_features' =
                       IF is_default THEN default_features \cup default_items(rest).items
                       ELSE default_features
                /\ associate(dep, rest)


\* The branch of a key/value line: dep the text before the first "=", bal what
\* get_balanced returned for the text after it.
key_value_line(dep, bal) ==
    LET rest == bal.value
        is_default == current_table = <<"f","e","a","t","u","r","e","s">> /\ trim(dep) = <<"d","e","f","a","u","l","t">>
    IN  /\ lines' = bal.lines
        /\ UNCHANGED current_table
        /\ IF ~bal.ok
           THEN /\ Err(<<"P","a","r","s","e"," ","e","r","r","o","r"," ","w","h","i","l","e"," ","p","a","r","s","i","n","g"," ","d","e","p","e","n","d","e","n","c","y"," ">> \o dep
                           \o <<":"," ">> \o <<"u","n","b","a","l","a","n","c","e","d"," ","s","o","u","r","c","e">>)
                /\ UNCHANGED <<top_comment, current_comment, features, default_features>>
           ELSE IF is_default /\ ~default_items(rest).some
           THEN /\ Err(<<"P","a","r","s","e"," ","e","r","r","o","r"," ","w","h","i","l","e"," ","p","a","r","s","i","n","g"," ","d","e","p","e","n","d","e","n","c","y"," ">> \o dep)
                /\ UNCHANGED <<top_comment, current_comment, features, default_features>>
           ELSE /\ default_features' =
                       IF is_default THEN default_features \cup default_items(rest).items
                       ELSE default_features
                /\ associate(dep, rest)

\* line.split_once("=")
KeyValueLine ==
    /\ pc = "loop" /\ has_next(lines)
    /\ ~starts_with(line, <<"#","!">>) /\ ~starts_with(line, <<"#","#">>)
    /\ ~starts_with(line, <<"[">>)
    /\ find(line, <<"=">>) # 0
    /\ LET eq == find(line, <<"=">>)
       IN  key_value_line(SubSeq(line, 1, eq - 1),
                          get_balanced(From(line, eq + 1), after_next(lines)))
    /\ UNCHANGED <<cargo_toml, earlier, balanced_vars>>

\* A line of no other shape: no branch of the loop body takes it.
OtherLine ==
    /\ pc = "loop" /\ has_next(lines)
    /\ ~starts_with(line, <<"#","!">>) /\ ~starts_with(line, <<"#","#">>)
    /\ ~starts_with(line, <<"[">>)
    /\ find(line, <<"=">>) = 0
    /\ lines' = after_next(lines)
    /\ UNCHANGED <<top_comment, current_comment, features, default_features,
                   current_table, pc, ret>>
    /\ UNCHANGED <<cargo_toml, earlier, balanced_vars>>

\* What the `for (f, top, comment) in features` loop writes for one entry.
render_feature(f, defaults) ==
    LET default == IF f.name \in defaults THEN <<" ","*","(","e","n","a","b","l","e","d"," ","b","y"," ","d","e","f","a","u","l","t",")","*">> ELSE <<>>
    IN  IF trim(f.comment) # <<>>
        THEN f.top \o <<"*"," ","*","*">> \o <<Backtick>> \o f.name \o <<Backtick>> \o <<"*","*">>
                 \o default \o <<" ", EmDash>> \o f.comment \o <<"\n">>
        ELSE f.top \o <<"*"," ","*","*">> \o <<Backtick>> \o f.name \o <<Backtick>> \o <<"*","*">>
                 \o default \o <<"\n">> \o <<"\n">>

\* render_features writing the entries last to first.
RECURSIVE render_features_reversed(_, _)
render_features_reversed(fs, defaults) ==
    IF fs = <<>> THEN <<>>
    ELSE render_features_reversed(Tail(fs), defaults) \o render_feature(Head(fs), defaults)

\* The `for` loop over the entries fs: what it writes to `result`.
RECURSIVE render_features(_, _)
render_features(fs, defaults) ==
    IF fs = <<>> THEN <<>>
    ELSE render_feature(Head(fs), defaults) \o render_features(Tail(fs), defaults)

\* finish with its two checks in the other order.
finish_features_first(comment, fs, defaults, top) ==
    IF fs = <<>>
    THEN [kind |-> "Err", text |-> <<"C","o","u","l","d"," ","n","o","t"," ","f","i","n","d"," ","d","o","c","u","m","e","n","t","e","d"," ","f","e","a","t","u","r","e","s"," ","i","n"," ","C","a","r","g","o",".","t","o","m","l">>]
    ELSE IF comment # <<>>
    THEN [kind |-> "Err", text |-> <<"F","o","u","n","d"," ","c","o","m","m","e","n","t"," ","n","o","t"," ","a","s","s","o","c","i","a","t","e","d"," ","w","i","t","h"," ","a"," ","f","e","a","t","u","r","e">>]
    ELSE [kind |-> "Ok", text |-> render_features(fs, defaults) \o top]

\* finish without `result += &top_comment`.
finish_without_top(comment, fs, defaults, top) ==
    IF comment # <<>>
    THEN [kind |-> "Err", text |-> <<"F","o","u","n","d"," ","c","o","m","m","e","n","t"," ","n","o","t"," ","a","s","s","o","c","i","a","t","e","d"," ","w","i","t","h"," ","a"," ","f","e","a","t","u","r","e">>]
    ELSE IF fs = <<>>
    THEN [kind |-> "Err", text |-> <<"C","o","u","l","d"," ","n","o","t"," ","f","i","n","d"," ","d","o","c","u","m","e","n","t","e","d"," ","f","e","a","t","u","r","e","s"," ","i","n"," ","C","a","r","g","o",".","t","o","m","l">>]
    ELSE [kind |-> "Ok", text |-> render_features(fs, defaults)]

\* finish taking a pending Grouping block for an error as well.
finish_top_pending(comment, fs, defaults, top) ==
    IF comment # <<>> \/ top # <<>>
    THEN [kind |-> "Err", text |-> <<"F","o","u","n","d"," ","c","o","m","m","e","n","t"," ","n","o","t"," ","a","s","s","o","c","i","a","t","e","d"," ","w","i","t","h"," ","a"," ","f","e","a","t","u","r","e">>]
    ELSE IF fs = <<>>
    THEN [kind |-> "Err", text |-> <<"C","o","u","l","d"," ","n","o","t"," ","f","i","n","d"," ","d","o","c","u","m","e","n","t","e","d"," ","f","e","a","t","u","r","e","s"," ","i","n"," ","C","a","r","g","o",".","t","o","m","l">>]
    ELSE [kind |-> "Ok", text |-> render_features(fs, defaults) \o top]

\* Lines 262 to 278: what process_toml returns once the loop has ended.
finish(comment, fs, defaults, top) ==
    IF comment # <<>>
    THEN [kind |-> "Err", text |-> <<"F","o","u","n","d"," ","c","o","m","m","e","n","t"," ","n","o","t"," ","a","s","s","o","c","i","a","t","e","d"," ","w","i","t","h"," ","a"," ","f","e","a","t","u","r","e">>]
    ELSE IF fs = <<>>
    THEN [kind |-> "Err", text |-> <<"C","o","u","l","d"," ","n","o","t"," ","f","i","n","d"," ","d","o","c","u","m","e","n","t","e","d"," ","f","e","a","t","u","r","e","s"," ","i","n"," ","C","a","r","g","o",".","t","o","m","l">>]
    ELSE [kind |-> "Ok", text |-> render_features(fs, defaults) \o top]

\* lines.next() is None: the loop ends and process_toml returns
EndOfInput ==
    /\ pc = "loop" /\ ~has_next(lines)
    /\ lines' = <<>>
    /\ pc' = "done"
    /\ ret' = finish(current_comment, features, default_features, top_comment)
    /\ UNCHANGED <<top_comment, current_comment, features, default_features,
                   current_table>>
    /\ UNCHANGED <<cargo_toml, earlier, balanced_vars>>

Next ==
    \/ TopCommentLine
    \/ CurrentCommentLine
    \/ TableLine
    \/ KeyValueLine
    \/ OtherLine
    \/ EndOfInput

Spec == Init /\ [][Next]_vars
SpecDeps == InitDeps /\ [][Next]_vars

\* Lines of every kind around a value of several lines: lines the filter
\* drops, lines the loop skips, and lines that may continue a value.
ValueLines == {
    <<"#","!"," ","a","b","c">>,
    <<"#","#"," ","1","2","3">>,
    <<"#"," ","f","f">>,
    <<"[","f","e","a","t","u","r","e","s","]">>,
    <<"[","a",".","b","]">>,
    <<"b","a","r"," ","="," ","[">>,
    <<"f","o","o"," ","="," ","[","]">>,
    <<"]">>,
    <<"e","f","g","h">> }

InitValues == InitOn(ValueLines)
SpecValues == InitValues /\ [][Next]_vars

\* The markers: bare, followed by something that is no space, and the lines
\* the filter drops.
MarkerLines == {
    <<"#","#">>,
    <<"#","!">>,
    <<"#","#","#">>,
    <<"#","!","x">>,
    <<"#"," ","f","f">>,
    <<>>,
    <<"[","f","e","a","t","u","r","e","s","]">>,
    <<"f","o","o"," ","="," ","[","]">>,
    <<"e","f","g","h">> }

InitMarkers == InitOn(MarkerLines)
SpecMarkers == InitMarkers /\ [][Next]_vars

(***************************************************************************)
(* process_toml called again on the same text, as by a second expansion of *)
(* the macro in one build.                                                 *)
(***************************************************************************)
TwiceLines == {
    <<"#","!"," ","a","b","c">>,
    <<"#","#"," ","1","2","3">>,
    <<"[","f","e","a","t","u","r","e","s","]">>,
    <<"[","d","e","p","e","n","d","e","n","c","i","e","s","]">>,
    <<"f","o","o"," ","="," ","[","]">>,
    <<"d","e","f","a","u","l","t"," ","="," ","[","\"","f","o","o","\"","]">>,
    <<"e","f","g","h">>,
    <<"[","a","b","c","d">> }

InitTwice == InitOn(TwiceLines)

\* Reinvoke with top_comment outliving the call, as a static buffer would.
Reinvoke_keeping_top_comment ==
    /\ pc = "done" /\ earlier.kind = "None"
    /\ earlier' = ret
    /\ lines' = cargo_toml
    /\ current_comment' = <<>>
    /\ features' = <<>>
    /\ default_features' = {}
    /\ current_table' = <<>>
    /\ pc' = "loop"
    /\ ret' = [kind |-> "None", text |-> <<>>]
    /\ UNCHANGED <<top_comment, cargo_toml, balanced_vars>>

\* The call has returned and process_toml is called a second time with the
\* same argument: a new iterator over the text, and every local variable
\* initialised anew.
Reinvoke ==
    /\ pc = "done" /\ earlier.kind = "None"
    /\ earlier' = ret
    /\ lines' = cargo_toml
    /\ top_comment' = <<>>
    /\ current_comment' = <<>>
    /\ features' = <<>>
    /\ default_features' = {}
    /\ current_table' = <<>>
    /\ pc' = "loop"
    /\ ret' = [kind |-> "None", text |-> <<>>]
    /\ UNCHANGED <<cargo_toml, balanced_vars>>

NextTwice ==
    \/ Next
    \/ Reinvoke

SpecTwice == InitTwice /\ [][NextTwice]_vars

(***************************************************************************)
(* The iteration of the loop on a key/value line with get_balanced run     *)
(* byte by byte: the call, the for loop over the bytes of a line, the end  *)
(* of a line, and the return into process_toml.                            *)
(***************************************************************************)
\* The manifests: a key/value line from `values`, then lines from `more`.
InitBalancedOn(values, more) ==
    /\ \E v \in values : \E n \in 0..(MaxLines - 1) : \E m \in [1..n -> more] :
           cargo_toml = <<v>> \o m
    /\ lines = cargo_toml
    /\ top_comment = <<>>
    /\ current_comment = <<>>
    /\ features = <<>>
    /\ default_features = {}
    /\ current_table = <<>>
    /\ pc = "loop"
    /\ ret = [kind |-> "None", text |-> <<>>]
    /\ earlier = [kind |-> "None", text |-> <<>>]
    /\ key = <<>>
    /\ gb_pc = "idle"
    /\ bytes = <<>>
    /\ result = <<>>
    /\ in_quote = FALSE
    /\ level = 0
    /\ last_slash = FALSE

\* the variables of process_toml a call of get_balanced cannot reach
caller_vars == <<top_comment, current_comment, features, default_features,
                 current_table, pc, ret, cargo_toml, earlier>>

\* line.split_once("=") and the call get_balanced(rest, &mut lines), up to
\* the for loop: `line` is first_line less its comment, and so is `result`.
CallGetBalanced ==
    /\ pc = "loop" /\ gb_pc = "idle" /\ has_next(lines)
    /\ ~starts_with(line, <<"#","!">>) /\ ~starts_with(line, <<"#","#">>)
    /\ ~starts_with(line, <<"[">>)
    /\ find(line, <<"=">>) # 0
    /\ LET eq == find(line, <<"=">>)
           first_line == From(line, eq + 1)
       IN  /\ key' = SubSeq(line, 1, eq - 1)
           /\ bytes' = strip_comment(first_line)
           /\ result' = strip_comment(first_line)
    /\ lines' = after_next(lines)
    /\ in_quote' = FALSE
    /\ level' = 0
    /\ last_slash' = FALSE
    /\ gb_pc' = "scan"
    /\ UNCHANGED caller_vars

\* scan_byte with no test of the level at a closing bracket.
scan_byte_unchecked(b) ==
    IF last_slash
    THEN /\ last_slash' = FALSE
         /\ UNCHANGED <<in_quote, level, gb_pc>>
    ELSE IF in_quote
    THEN /\ last_slash' = (b = "\\")
         /\ in_quote' = (b \notin {"\"", "'"})
         /\ UNCHANGED <<level, gb_pc>>
    ELSE IF b = "\""
    THEN /\ in_quote' = TRUE
         /\ UNCHANGED <<level, last_slash, gb_pc>>
    ELSE IF b \in {"{", "["}
    THEN /\ level' = level + 1
         /\ UNCHANGED <<in_quote, last_slash, gb_pc>>
    ELSE IF b \in {"}", "]"}
    THEN /\ level' = level - 1
         /\ UNCHANGED <<in_quote, last_slash, gb_pc>>
    ELSE UNCHANGED <<in_quote, level, last_slash, gb_pc>>

\* The body of the for loop on byte b.
scan_byte(b) ==
    IF last_slash
    THEN /\ last_slash' = FALSE
         /\ UNCHANGED <<in_quote, level, gb_pc>>
    ELSE IF in_quote
    THEN /\ last_slash' = (b = "\\")
         /\ in_quote' = (b \notin {"\"", "'"})
         /\ UNCHANGED <<level, gb_pc>>
    ELSE IF b = "\""
    THEN /\ in_quote' = TRUE
         /\ UNCHANGED <<level, last_slash, gb_pc>>
    ELSE IF b \in {"{", "["}
    THEN /\ level' = level + 1
         /\ UNCHANGED <<in_quote, last_slash, gb_pc>>
    ELSE IF b \in {"}", "]"} /\ level = 0
    THEN /\ gb_pc' = "Err"      \* return Err("unbalanced source")
         /\ UNCHANGED <<in_quote, level, last_slash>>
    ELSE IF b \in {"}", "]"}
    THEN /\ level' = level - 1
         /\ UNCHANGED <<in_quote, last_slash, gb_pc>>
    ELSE UNCHANGED <<in_quote, level, last_slash, gb_pc>>

\* for b in line.as_bytes()
ScanByte ==
    /\ gb_pc = "scan" /\ bytes # <<>>
    /\ scan_byte(Head(bytes))
    /\ bytes' = Tail(bytes)
    /\ UNCHANGED <<lines, key, result, caller_vars>>

\* Behind the for loop: return Ok(result) at level 0, else pull the next line,
\* or return Err("unbalanced source") if there is none.
end_of_line ==
    IF level = 0
    THEN /\ gb_pc' = "Ok"
         /\ UNCHANGED <<lines, bytes, result, last_slash>>
    ELSE IF has_next(lines)
    THEN /\ lines' = after_next(lines)
         /\ bytes' = strip_comment(next_item(lines))
         /\ result' = result \o strip_comment(next_item(lines))
         /\ last_slash' = FALSE
         /\ UNCHANGED gb_pc
    ELSE /\ gb_pc' = "Err"
         /\ lines' = <<>>
         /\ UNCHANGED <<bytes, result, last_slash>>

EndOfLine ==
    /\ gb_pc = "scan" /\ bytes = <<>>
    /\ end_of_line
    /\ UNCHANGED <<key, in_quote, level, caller_vars>>

\* get_balanced has returned: the rest of the key/value branch.
KeyValueReturn ==
    /\ pc = "loop" /\ gb_pc \in {"Ok", "Err"}
    /\ key_value_line(key, [ok |-> gb_pc = "Ok",
                            value |-> IF gb_pc = "Ok" THEN result ELSE <<>>,
                            lines |-> lines])
    /\ gb_pc' = "idle"
    /\ UNCHANGED <<cargo_toml, earlier, key, bytes, result, in_quote, level, last_slash>>

NextBalanced ==
    \/ CallGetBalanced
    \/ ScanByte
    \/ EndOfLine
    \/ KeyValueReturn

\* values with and without brackets, balanced and not
BalancedValues == {
    <<"a"," ","="," ","1">>,
    <<"b","a","r"," ","="," ","[","]">>,
    <<"b"," ","="," ","[">>,
    <<"c"," ","="," ","]">>,
    <<"d"," ","="," ","{","x"," ","="," ","[">>,
    <<"f","o","o"," ","="," ","["," ","x"," ","="," ","{"," ","]">>,
    <<"g"," ","="," ","[","}">> }

BalancedMore == {
    <<"]">>,
    <<"}">>,
    <<"x",",">>,
    <<"#"," ","f","f">>,
    <<"#","#"," ","1","2","3">>,
    <<"b","a","r"," ","="," ","[","]">> }

InitBalanced == InitBalancedOn(BalancedValues, BalancedMore)
SpecBalanced == InitBalanced /\ [][NextBalanced]_vars

\* values with quoted strings, the strings of tests::multi_lines among them
QuoteValues == {
    <<"v"," ","="," ","\"","1",".","2","-","}","\"">>,
    <<"q"," ","="," ","[","\"","[","\"","]">>,
    <<"e"," ","="," ","[","\"","\"","]","\"","]">>,
    <<"f","o","o"," ","="," ","[","'","[","'","]">>,
    <<"m"," ","="," ","\"","i","t","'","s"," ","[","\"">>,
    <<"b","a","r"," ","="," ","[">> }

QuoteMore == {
    <<"\"","\"","]","\"",",">>,
    <<"\"","b","a","r","\"">>,
    <<"'","}","'">>,
    <<"]">> }

InitQuotes == InitBalancedOn(QuoteValues, QuoteMore)
SpecQuotes == InitQuotes /\ [][NextBalanced]_vars

\* values with inline comments, outside and inside strings
HashValues == {
    <<"k"," ","="," ","1"," ","#"," ","[">>,
    <<"f","o","o"," ","="," ","["," ","#"," ","]">>,
    <<"h"," ","="," ","[","\"","a","#","b","\"","]">>,
    <<"b","a","r"," ","="," ","[">> }

HashMore == {
    <<"\"","b","a","r","\"",","," ","#"," ","x","]">>,
    <<"\"","a","#","]","\"",",">>,
    <<"\"","]">>,
    <<"]"," ","#"," ","[">>,
    <<"#","#"," ","1","2","3">>,
    <<"]">> }

InitHash == InitBalancedOn(HashValues, HashMore)
SpecHash == InitHash /\ [][NextBalanced]_vars

(***************************************************************************)
(* The properties.  They read the manifest and the Markdown on their own:  *)
(* the definitions below are not part of the model of the code.            *)
(***************************************************************************)
contains(s, p) == find(s, p) # 0

\* The lines of a text: its pieces between the line feeds.
RECURSIVE text_lines(_)
text_lines(s) ==
    IF s = <<>> THEN <<>>
    ELSE LET i == find(s, <<"\n">>)
         IN  IF i = 0 THEN <<s>>
             ELSE <<SubSeq(s, 1, i - 1)>> \o text_lines(From(s, i + 1))

\* How a list item of the Markdown starts, and the list items of a text.
ItemStart == <<"*"," ","*","*">> \o <<Backtick>>
ItemLines(text) == SelectSeq(text_lines(text), LAMBDA l : starts_with(l, ItemStart))

\* process_toml has returned Ok.
Succeeded == pc = "done" /\ ret.kind = "Ok"
\* process_toml has returned an error whose message contains msg.
FailedWith(r, msg) == r.kind = "Err" /\ contains(r.text, msg)
\* The loop is about to classify `line`.
Classifying == pc = "loop" /\ has_next(lines)

\* The shapes of a manifest line.
IsHeaderLine(l) == starts_with(l, <<"[">>)
IsKeyValueLine(l) == ~starts_with(l, <<"#">>) /\ ~starts_with(l, <<"[">>) /\ contains(l, <<"=">>)
IsGroupingDoc(l) == starts_with(l, <<"#","!">>) /\ (Len(l) = 2 \/ l[3] = " ")
IsAttachedDoc(l) == starts_with(l, <<"#","#">>) /\ (Len(l) = 2 \/ l[3] = " ")
\* The key of a key/value line, and the path of a table header.
KeyOf(l) == trim(SubSeq(l, 1, find(l, <<"=">>) - 1))
PathOf(l) ==
    LET i == find(l, <<"]">>)
    IN  trim(IF i = 0 THEN From(l, 2) ELSE SubSeq(l, 2, i - 1))
LastSegment(path) == trim(From(path, rfind(path, <<".">>) + 1))
\* The step appends one entry to features and changes no earlier one.
EntryAdded ==
    /\ Len(features') = Len(features) + 1
    /\ SubSeq(features', 1, Len(features)) = features

\* C1: when process_toml succeeds the output holds one list item per Entry, and
\* a table-header or key/value line that is classified without error creates
\* an Entry if and only if the Attached block is non-empty at that line (a bare
\* `##` makes it non-empty); a line of any other kind, and a key with no
\* pending Attached comment, creates none, whatever Grouping comment precedes.
C1_Step ==
    (Classifying /\ pc' = "loop") =>
        IF (IsHeaderLine(line) \/ IsKeyValueLine(line)) /\ current_comment # <<>>
        THEN EntryAdded
        ELSE features' = features
C1_EntryIffAttached ==
    /\ [](Succeeded => Len(ItemLines(ret.text)) = Len(features))
    /\ [][C1_Step]_vars
\* An Entry made by a bare `##` is rendered, with a Grouping block still pending.
C1_Witness ==
    /\ Succeeded
    /\ Len(features) = 1 /\ features[1].comment = <<" ","\n">>
    /\ Len(ItemLines(ret.text)) = 1
    /\ top_comment # <<>>

\* C2: when process_toml succeeds, an Entry's list-item line contains the
\* marker " *(enabled by default)*" if and only if the Entry's name is an item
\* of a `default` key under the table named exactly `features`; the items are
\* those of the bracketed list, trimmed of white space and quotes, the empty
\* ones dropped, and the set of them grows only at such a key, before or after
\* the Entry.
DefaultMarker == <<" ","*","(","e","n","a","b","l","e","d"," ","b","y"," ","d","e","f","a","u","l","t",")","*">>
Quotes == {"\"", "'"}
Strip(s, cs) == SubSeq(s, first_outside(s, cs, 1), last_outside(s, cs, Len(s)))
ListItems(value) ==
    LET inner == SubSeq(trim(value), 2, Len(trim(value)) - 1)
        cuts == {0, Len(inner) + 1} \cup {i \in 1..Len(inner) : inner[i] = ","}
        pieces == {SubSeq(inner, a + 1, b - 1) : <<a, b>> \in
                      {p \in cuts \X cuts :
                          p[1] < p[2] /\ \A c \in cuts : ~(p[1] < c /\ c < p[2])}}
    IN  {Strip(x, WhiteSpace \cup Quotes) : x \in pieces} \ {<<>>}
ValueOf(l) == get_balanced(From(l, find(l, <<"=">>) + 1), after_next(lines)).value
C2_Step ==
    (Classifying /\ pc' = "loop") =>
        default_features' =
            IF /\ IsKeyValueLine(line) /\ KeyOf(line) = <<"d","e","f","a","u","l","t">>
               /\ current_table = <<"f","e","a","t","u","r","e","s">>
            THEN default_features \cup ListItems(ValueOf(line))
            ELSE default_features
C2_DefaultMarker ==
    /\ [](Succeeded =>
            /\ Len(ItemLines(ret.text)) = Len(features)
            /\ \A i \in 1..Len(features) :
                   contains(ItemLines(ret.text)[i], DefaultMarker)
                       <=> features[i].name \in default_features)
    /\ [][C2_Step]_vars
\* An Entry of another table, made before the `default` key, carries the marker.
C2_Witness ==
    /\ Succeeded
    /\ Len(features) = 1 /\ features[1].name = <<"d","e","p","3">>
    /\ current_table = <<"f","e","a","t","u","r","e","s">>
    /\ contains(ItemLines(ret.text)[1], DefaultMarker)

\* C3: when process_toml succeeds the list items stand in the order of the
\* lines that made their Entries: every line is classified after the lines
\* before it, an Entry is appended behind the Entries made so far under the
\* name its line gives, and the i-th list item is that of the i-th Entry (its
\* name, and the first line of its comment): none is moved, dropped or doubled.
NameOfLine(l) == IF IsHeaderLine(l) THEN LastSegment(PathOf(l)) ELSE KeyOf(l)
IsSuffix(s, t) == Len(s) <= Len(t) /\ s = SubSeq(t, Len(t) - Len(s) + 1, Len(t))
\* Item line l is the one of entry f.
ItemOf(l, f) ==
    /\ starts_with(l, ItemStart \o f.name \o <<Backtick>> \o <<"*","*">>)
    /\ trim(f.comment) # <<>> =>
           ends_with(l, <<" ", EmDash>> \o Head(text_lines(f.comment)))
    /\ trim(f.comment) = <<>> => ~contains(l, <<EmDash>>)
C3_Step ==
    Classifying =>
        /\ IsSuffix(lines', lines) /\ Len(lines') < Len(lines)
        /\ \/ features' = features
           \/ EntryAdded /\ features'[Len(features')].name = NameOfLine(line)
C3_SourceOrder ==
    /\ [](Succeeded =>
            /\ Len(ItemLines(ret.text)) = Len(features)
            /\ \A i \in 1..Len(features) : ItemOf(ItemLines(ret.text)[i], features[i]))
    /\ [][C3_Step]_vars
\* Two Entries with different comments are rendered.
C3_Witness ==
    /\ Succeeded
    /\ Len(features) = 2
    /\ trim(features[1].comment) # <<>> /\ trim(features[2].comment) = <<>>

\* C4: the content of every Grouping line that is classified without error is
\* appended, with its line end, behind the pending Grouping block; the block
\* is handed whole to the next Entry made and is otherwise left alone; and
\* when process_toml succeeds the text standing in the output before the list
\* item of each Entry is the block handed to it, and the text behind the last
\* Entry is the block still pending.
\* The place of the first list item of text from place i on (0: none).
ItemPlace(text, i) ==
    IF matches_at(text, ItemStart, i) THEN i
    ELSE LET j == find_from(text, <<"\n">> \o ItemStart, i)
         IN  IF j = 0 THEN 0 ELSE j + 1
\* The texts around the list items: before the first, between the blank line
\* that ends one and the next, and behind the last.
RECURSIVE GroupingTexts(_)
GroupingTexts(text) ==
    LET p == ItemPlace(text, 1)
        q == find_from(text, <<"\n","\n">>, p)
    IN  IF p = 0 \/ q = 0 THEN <<text>>
        ELSE <<SubSeq(text, 1, p - 1)>> \o GroupingTexts(From(text, q + 2))
C4_Step ==
    (Classifying /\ pc' = "loop") =>
        IF IsGroupingDoc(line)
        THEN /\ top_comment' = top_comment \o From(line, 3) \o <<"\n">>
             /\ features' = features
        ELSE \/ top_comment' = top_comment /\ features' = features
             \/ /\ EntryAdded
                /\ features'[Len(features')].top = top_comment
                /\ top_comment' = <<>>
C5_Step ==
    (pc = "loop" /\ ~has_next(lines)) =>
        /\ pc' = "done"
        /\ IF current_comment # <<>>
           THEN FailedWith(ret', <<"n","o","t"," ","a","s","s","o","c","i","a","t","e","d"," ","w","i","t","h"," ","a"," ","f","e","a","t","u","r","e">>)
           ELSE IF features = <<>>
           THEN FailedWith(ret', <<"C","o","u","l","d"," ","n","o","t"," ","f","i","n","d"," ","d","o","c","u","m","e","n","t","e","d"," ","f","e","a","t","u","r","e","s">>)
           ELSE ret'.kind = "Ok"
C5_EndOfInput == [][C5_Step]_vars
\* The Attached block is pending at the end, behind an Entry.
C5_Witness ==
    /\ pc = "done" /\ lines = <<>>
    /\ FailedWith(ret, <<"n","o","t"," ","a","s","s","o","c","i","a","t","e","d"," ","w","i","t","h"," ","a"," ","f","e","a","t","u","r","e">>)
    /\ features # <<>> /\ current_comment # <<>>

\* C6: a Grouping doc-comment line (the bare `#!` too) classified while the
\* Attached block is non-empty makes process_toml fail with "Cannot mix": it
\* returns the error and no Markdown.
C6_Step ==
    (Classifying /\ IsGroupingDoc(line) /\ current_comment # <<>>) =>
        pc' = "done" /\ FailedWith(ret', <<"C","a","n","n","o","t"," ","m","i","x">>)
C6_CannotMix == [][C6_Step]_vars
\* The bare `#!` met behind an Attached line.
C6_Witness ==
    /\ pc = "done" /\ FailedWith(ret, <<"C","a","n","n","o","t"," ","m","i","x">>)
    /\ current_comment # <<>>

\* C7 as claimed: in every reachable state the Grouping block and the Attached
\* block are not both non-empty.
C7_NeverBothPending == ~(top_comment # <<>> /\ current_comment # <<>>)
\* C7 amended: the Grouping block grows only while the Attached block is empty
\* (a Grouping line met while it is not fails with "Cannot mix"), but an
\* Attached doc-comment line is accepted whatever the Grouping block holds, so
\* that both blocks are pending from then to the next Entry.
C7_Step ==
    /\ (top_comment' # top_comment /\ top_comment' # <<>>) =>
           current_comment = <<>> /\ current_comment' = <<>>
    /\ (Classifying /\ IsGroupingDoc(line) /\ current_comment # <<>>) =>
           FailedWith(ret', <<"C","a","n","n","o","t"," ","m","i","x">>)
    /\ (Classifying /\ IsAttachedDoc(line)) =>
           /\ pc' = "loop"
           /\ top_comment' = top_comment
           /\ current_comment' = current_comment \o <<" ">> \o From(line, 3) \o <<"\n">>
C7_GroupingThenAttached == [][C7_Step]_vars
\* Both blocks pending: a Grouping line, then an Attached line.
C7_Witness ==
    /\ pc = "loop"
    /\ top_comment # <<>> /\ current_comment # <<>>

\* The value of key/value line l is balanced: get_balanced returns Ok for it.
ValueRead(l) == get_balanced(From(l, find(l, <<"=">>) + 1), after_next(lines)).ok
\* The table is a dependency table.
IsDependencyTable(table) == ends_with(table, <<"d","e","p","e","n","d","e","n","c","i","e","s">>)

\* C8: a key/value line classified while the Attached block is non-empty and
\* the current table ends with `dependencies` creates an Entry if its value
\* holds an `optional` sub-key whose assigned value starts with `true`, and
\* otherwise makes process_toml fail with "is not an optional dependency".
\* Stated for the lines whose value is balanced.
HasOptionalTrue(value) ==
    \E i \in 1..Len(value) :
        /\ matches_at(value, <<"o","p","t","i","o","n","a","l">>, i)
        /\ LET r == trim(From(value, i + Len(<<"o","p","t","i","o","n","a","l">>)))
           IN  starts_with(r, <<"=">>) /\ starts_with(trim(From(r, 2)), <<"t","r","u","e">>)
C8_Step ==
    (/\ Classifying /\ IsKeyValueLine(line) /\ ValueRead(line)
     /\ current_comment # <<>> /\ IsDependencyTable(current_table)) =>
        IF HasOptionalTrue(ValueOf(line))
        THEN pc' = "loop" /\ EntryAdded /\ features'[Len(features')].name = KeyOf(line)
        ELSE pc' = "done" /\ FailedWith(ret', <<"i","s"," ","n","o","t"," ","a","n"," ","o","p","t","i","o","n","a","l"," ","d","e","p","e","n","d","e","n","c","y">>)
C8_OptionalDependency == [][C8_Step]_vars

\* C9 as claimed: a table-header line classified while the Attached block is
\* non-empty creates an Entry named by the last segment of its path, and
\* empties both comment blocks, if the path has a dot and the part before the
\* last dot ends with `dependencies`; otherwise process_toml fails with "Not a
\* feature" and the line.  Either way, and with no comment pending, the current
\* table becomes the path.
DeclaresDependency(path) ==
    /\ contains(path, <<".">>)
    /\ ends_with(trim(SubSeq(path, 1, rfind(path, <<".">>) - 1)), <<"d","e","p","e","n","d","e","n","c","i","e","s">>)
C9_Header ==
    /\ current_table' = PathOf(line)
    /\ current_comment # <<>> =>
           IF DeclaresDependency(PathOf(line))
           THEN /\ pc' = "loop" /\ EntryAdded
                /\ features'[Len(features')].name = LastSegment(PathOf(line))
                /\ top_comment' = <<>> /\ current_comment' = <<>>
           ELSE /\ pc' = "done"
                /\ FailedWith(ret', <<"N","o","t"," ","a"," ","f","e","a","t","u","r","e",":"," ">> \o <<Backtick>> \o line \o <<Backtick>>)
    /\ current_comment = <<>> => pc' = "loop" /\ features' = features
C9_AnyHeader ==
    [][(Classifying /\ IsHeaderLine(line) /\ current_comment # <<>>) => C9_Header]_vars
\* C9 amended: the same of a table-header line that has a closing bracket; a
\* header line with none makes process_toml fail with "Parse error while
\* parsing line" and the line, whatever is pending, the current table and the
\* Entries left as they were.
HasClosingBracket(l) == contains(l, <<"]">>)
C9_Step ==
    (Classifying /\ IsHeaderLine(line)) =>
        IF HasClosingBracket(line) THEN C9_Header
        ELSE /\ pc' = "done"
             /\ FailedWith(ret', <<"P","a","r","s","e"," ","e","r","r","o","r"," ","w","h","i","l","e"," ","p","a","r","s","i","n","g"," ","l","i","n","e",":"," ">> \o line)
             /\ current_table' = current_table /\ features' = features
C9_ClosedHeader == [][C9_Step]_vars
\* A header has made an Entry and taken the Grouping block with it.
C9_Witness ==
    /\ pc = "loop"
    /\ Len(features) = 1 /\ features[1].name = <<"d","e","p","3">> /\ features[1].top # <<>>
    /\ current_table = <<"d","e","p","e","n","d","e","n","c","i","e","s",".","d","e","p","3">>
    /\ top_comment = <<>> /\ current_comment = <<>>

\* C10 as claimed: a key/value line classified while the Attached block is
\* non-empty and the current table is neither `features` nor a path ending
\* with `dependencies` (no header seen yet included) makes process_toml fail
\* with "Comment cannot be associated with a feature", and makes no Entry.
C10_Outside ==
    /\ Classifying /\ IsKeyValueLine(line)
    /\ current_comment # <<>>
    /\ current_table # <<"f","e","a","t","u","r","e","s">> /\ ~IsDependencyTable(current_table)
C10_AnyValue ==
    [][C10_Outside =>
          /\ pc' = "done"
          /\ FailedWith(ret', <<"C","o","m","m","e","n","t"," ","c","a","n","n","o","t"," ","b","e"," ","a","s","s","o","c","i","a","t","e","d"," ","w","i","t","h"," ","a"," ","f","e","a","t","u","r","e">>)
          /\ features' = features]_vars
\* C10 amended: such a line makes process_toml fail and makes no Entry; the
\* error is "Comment cannot be associated with a feature" when the value of
\* the line is balanced, and "Parse error while parsing dependency" when it
\* is not (get_balanced is called first).
C10_Step ==
    C10_Outside =>
        /\ pc' = "done"
        /\ features' = features
        /\ IF ValueRead(line)
           THEN FailedWith(ret', <<"C","o","m","m","e","n","t"," ","c","a","n","n","o","t"," ","b","e"," ","a","s","s","o","c","i","a","t","e","d"," ","w","i","t","h"," ","a"," ","f","e","a","t","u","r","e">>)
           ELSE FailedWith(ret', <<"P","a","r","s","e"," ","e","r","r","o","r"," ","w","h","i","l","e"," ","p","a","r","s","i","n","g"," ","d","e","p","e","n","d","e","n","c","y">>)
C10_BalancedValue == [][C10_Step]_vars
\* The error, with no table header seen.
C10_Witness ==
    /\ pc = "done"
    /\ FailedWith(ret, <<"C","o","m","m","e","n","t"," ","c","a","n","n","o","t"," ","b","e"," ","a","s","s","o","c","i","a","t","e","d"," ","w","i","t","h"," ","a"," ","f","e","a","t","u","r","e">>)
    /\ current_table = <<>> /\ features = <<>>

\* The line being classified is the first doc comment and the last line of a
\* manifest that has reached [features] with nothing documented.
C11_LastLine ==
    /\ Classifying /\ ~has_next(after_next(lines))
    /\ current_table = <<"f","e","a","t","u","r","e","s">>
    /\ features = <<>> /\ top_comment = <<>> /\ current_comment = <<>>
\* The input has ended under [features] with a Grouping block as its only doc comment.
C11_GroupingOnly ==
    /\ pc = "loop" /\ ~has_next(lines)
    /\ current_table = <<"f","e","a","t","u","r","e","s">>
    /\ features = <<>> /\ top_comment # <<>> /\ current_comment = <<>>
\* The same with an Attached block as its only doc comment.
C11_AttachedOnly ==
    /\ pc = "loop" /\ ~has_next(lines)
    /\ current_table = <<"f","e","a","t","u","r","e","s">>
    /\ features = <<>> /\ top_comment = <<>> /\ current_comment # <<>>
\* C11 as claimed: a manifest whose only doc comment is a lone Grouping
\* comment under [features], no key following, fails with "not associated
\* with a feature".
C11_LoneGrouping ==
    [][/\ (C11_LastLine /\ IsGroupingDoc(line)) => C11_GroupingOnly'
       /\ C11_GroupingOnly =>
              FailedWith(ret', <<"n","o","t"," ","a","s","s","o","c","i","a","t","e","d"," ","w","i","t","h"," ","a"," ","f","e","a","t","u","r","e">>)]_vars
\* C11 amended: such a manifest fails with "Could not find documented
\* features", and not with "not associated with a feature"; it is the lone
\* Attached comment under [features] that fails with "not associated with a
\* feature".
C11_Step ==
    /\ (C11_LastLine /\ IsGroupingDoc(line)) => C11_GroupingOnly'
    /\ C11_GroupingOnly =>
           /\ pc' = "done"
           /\ FailedWith(ret', <<"C","o","u","l","d"," ","n","o","t"," ","f","i","n","d"," ","d","o","c","u","m","e","n","t","e","d"," ","f","e","a","t","u","r","e","s">>)
           /\ ~FailedWith(ret', <<"n","o","t"," ","a","s","s","o","c","i","a","t","e","d"," ","w","i","t","h"," ","a"," ","f","e","a","t","u","r","e">>)
    /\ (C11_LastLine /\ IsAttachedDoc(line)) => C11_AttachedOnly'
    /\ C11_AttachedOnly =>
           /\ pc' = "done"
           /\ FailedWith(ret', <<"n","o","t"," ","a","s","s","o","c","i","a","t","e","d"," ","w","i","t","h"," ","a"," ","f","e","a","t","u","r","e">>)
C11_LoneComment == [][C11_Step]_vars
\* The lone Grouping comment under [features], and the error it ends in.
C11_Witness ==
    /\ pc = "done"
    /\ FailedWith(ret, <<"C","o","u","l","d"," ","n","o","t"," ","f","i","n","d"," ","d","o","c","u","m","e","n","t","e","d"," ","f","e","a","t","u","r","e","s">>)
    /\ current_table = <<"f","e","a","t","u","r","e","s">>
    /\ features = <<>> /\ top_comment # <<>> /\ current_comment = <<>>

\* C12: an error ends the run at the step that raises it.  No error has been
\* raised while the loop runs, so the error returned is the first one raised;
\* once process_toml has returned nothing changes any more, so the lines
\* behind the failing one are never classified; the value returned with an
\* error is the message alone, with no list item in it, the Entries collected
\* before (e.g. before an unterminated `[abcd` header) being left unrendered.
\* The lines known to fail do fail at the step that classifies them: the
\* header with no closing bracket, the Grouping line behind an Attached block,
\* the value get_balanced cannot read.
C12_Step ==
    /\ pc = "done" => UNCHANGED vars
    /\ (ret'.kind = "Err" /\ ret.kind # "Err") =>
           /\ pc = "loop" /\ pc' = "done"
           /\ ~contains(ret'.text, ItemStart)
           /\ features' = features
           /\ Classifying => IsSuffix(lines', after_next(lines))
    /\ (Classifying /\ IsHeaderLine(line) /\ ~HasClosingBracket(line)) =>
           /\ pc' = "done"
           /\ FailedWith(ret', <<"P","a","r","s","e"," ","e","r","r","o","r"," ","w","h","i","l","e"," ","p","a","r","s","i","n","g"," ","l","i","n","e",":"," ">> \o line)
    /\ (Classifying /\ IsGroupingDoc(line) /\ current_comment # <<>>) =>
           pc' = "done" /\ ret'.kind = "Err"
    /\ (Classifying /\ IsKeyValueLine(line) /\ ~ValueRead(line)) =>
           pc' = "done" /\ ret'.kind = "Err"
C12_FirstErrorWins ==
    /\ [](IF pc = "loop" THEN ret.kind = "None" ELSE ret.kind \in {"Err", "Ok"})
    /\ [][C12_Step]_vars
\* The unterminated header behind an Entry, with a line left behind it.
C12_Witness ==
    /\ pc = "done"
    /\ FailedWith(ret, <<"P","a","r","s","e"," ","e","r","r","o","r"," ","w","h","i","l","e"," ","p","a","r","s","i","n","g"," ","l","i","n","e",":"," ","[","a","b","c","d">>)
    /\ features # <<>>
    /\ has_next(lines)


Pulled == SubSeq(cargo_toml, 1, Len(cargo_toml) - Len(lines))
\* A trimmed line less its text from the first `#` on.
CutAtHash(l) == IF contains(l, <<"#">>) THEN SubSeq(l, 1, find(l, <<"#">>) - 1) ELSE l
\* A physical line survives preprocessing: it is not blank and not a plain comment.
Survives(l) ==
    /\ trim(l) # <<>>
    /\ starts_with(trim(l), <<"#">>) =>
           (starts_with(trim(l), <<"#","#">>) \/ starts_with(trim(l), <<"#","!">>))
\* The surviving lines of ls, each trimmed and cut at its `#`, put end to end.
RECURSIVE Joined(_)
Joined(ls) ==
    IF ls = <<>> THEN <<>>
    ELSE (IF Survives(Head(ls)) THEN CutAtHash(trim(Head(ls))) ELSE <<>>) \o Joined(Tail(ls))
\* The lines the step pulls from the iterator.
PulledNow == SubSeq(lines, 1, Len(lines) - Len(lines'))
Closers == {"}", "]"}
\* What get_balanced, taken as one step, returns from the state g of a call.
ResumeFrom(g) ==
    IF g.gb_pc = "scan"
    THEN LET s == scan_bytes(g.bytes, 1, g.in_quote, g.level, g.last_slash) IN
         IF s.err THEN [ok |-> FALSE, value |-> <<>>, lines |-> g.lines]
         ELSE IF s.level = 0 THEN [ok |-> TRUE, value |-> g.result, lines |-> g.lines]
         ELSE IF ~has_next(g.lines) THEN [ok |-> FALSE, value |-> <<>>, lines |-> <<>>]
         ELSE LET l == strip_comment(next_item(g.lines))
              IN  balanced_loop(l, g.result \o l, s.in_quote, s.level, after_next(g.lines))
    ELSE [ok |-> g.gb_pc = "Ok", value |-> IF g.gb_pc = "Ok" THEN g.result ELSE <<>>,
          lines |-> g.lines]
\* The state of the call.
CallState ==
    [gb_pc |-> gb_pc, bytes |-> bytes, in_quote |-> in_quote, level |-> level,
     last_slash |-> last_slash, result |-> result, lines |-> lines]

\* C14: `result` is the lines the call has consumed, each less its comment,
\* put end to end: the value text at the call, and one more line joined at
\* each pull; the nesting counter is never negative; get_balanced returns Ok
\* at the end of the first line behind which the counter is zero, and only
\* there, pulling no further line (behind the first line if the value has no
\* bracket); it returns the "unbalanced" error at a closing bracket met
\* outside quotes with the counter at zero, and at the end of a line with the
\* counter above zero and no line left, and only there; process_toml turns the
\* error into "Parse error while parsing dependency <key>: unbalanced source".
\* What get_balanced returns at byte steps is what it returns taken as one
\* step.
C14_Step ==
    /\ (Classifying /\ gb_pc = "idle" /\ IsKeyValueLine(line)) =>
           /\ gb_pc' = "scan"
           /\ result' = CutAtHash(From(line, find(line, <<"=">>) + 1))
           /\ \A g \in {CallState'} :
                  ResumeFrom(g) = get_balanced(From(line, find(line, <<"=">>) + 1),
                                               after_next(lines))
    /\ gb_pc = "scan" =>
           /\ result' = result \o Joined(PulledNow)
           /\ \A g \in {CallState} : \A h \in {CallState'} : ResumeFrom(h) = ResumeFrom(g)
    /\ (gb_pc = "scan" /\ bytes = <<>> /\ level = 0) =>
           gb_pc' = "Ok" /\ lines' = lines
    /\ (gb_pc = "scan" /\ gb_pc' = "Ok") => (bytes = <<>> /\ level = 0)
    /\ (gb_pc = "scan" /\ bytes # <<>> /\ ~in_quote /\ ~last_slash
            /\ Head(bytes) \in Closers /\ level = 0) => gb_pc' = "Err"
    /\ (gb_pc = "scan" /\ bytes = <<>> /\ level > 0 /\ ~has_next(lines)) => gb_pc' = "Err"
    /\ (gb_pc = "scan" /\ gb_pc' = "Err") =>
           \/ bytes # <<>> /\ ~in_quote /\ ~last_slash /\ Head(bytes) \in Closers /\ level = 0
           \/ bytes = <<>> /\ level > 0 /\ ~has_next(lines)
    /\ gb_pc = "Err" =>
           /\ pc' = "done"
           /\ FailedWith(ret', <<"P","a","r","s","e"," ","e","r","r","o","r"," ","w","h","i","l","e"," ","p","a","r","s","i","n","g"," ","d","e","p","e","n","d","e","n","c","y"," ">> \o key)
           /\ FailedWith(ret', <<"u","n","b","a","l","a","n","c","e","d">>)
    /\ gb_pc = "Ok" =>
           ~FailedWith(ret', <<"u","n","b","a","l","a","n","c","e","d">>)
C14_Balanced ==
    /\ [](level \in Nat)
    /\ [][C14_Step]_vars
\* A value of three lines returned at the end of the third.
C14_Witness ==
    /\ gb_pc = "Ok"
    /\ Len(Pulled) = 3 /\ \A i \in 1..3 : Survives(Pulled[i])
    /\ Len(cargo_toml) = 4
    /\ result = <<" ","[","x",",","]">>

Brackets == {"{", "[", "}", "]"}
\* The bytes of the value the for loop has gone through.
Scanned == SubSeq(result, 1, Len(result) - Len(bytes))
\* Whether the text s ends inside a string, every quote of either kind that
\* does not directly follow a backslash inside a string opening or closing one:
\* q is that flag, esc the escape flag, at byte i.
RECURSIVE QuotedFrom(_, _, _, _)
QuotedFrom(s, i, q, esc) ==
    IF i > Len(s) THEN [q |-> q, esc |-> esc]
    ELSE IF esc THEN QuotedFrom(s, i + 1, q, FALSE)
    ELSE IF q /\ s[i] = "\\" THEN QuotedFrom(s, i + 1, q, TRUE)
    ELSE IF s[i] \in Quotes THEN QuotedFrom(s, i + 1, ~q, FALSE)
    ELSE QuotedFrom(s, i + 1, q, FALSE)
InString(s) == QuotedFrom(s, 1, FALSE, FALSE).q

\* C15: the quoted flag is toggled by every unescaped quote of either kind, so
\* that a bracket inside a double-quoted or a single-quoted string leaves the
\* nesting counter as it is and raises no error, and a quote directly behind a
\* backslash inside a string does not end the string.
C15_Step ==
    (gb_pc = "scan" /\ bytes # <<>>) =>
        \A at \in {QuotedFrom(Scanned, 1, FALSE, FALSE)} :
            /\ in_quote = at.q
            /\ (at.q /\ Head(bytes) \in Brackets) => (level' = level /\ gb_pc' = "scan")
            /\ (at.q /\ at.esc /\ Head(bytes) \in Quotes) => in_quote'
C15_QuotesToggle == [][C15_Step]_vars

\* The surviving lines among the physical lines ls.
Surviving(ls) == SelectSeq(ls, Survives)
\* C16: a surviving line is consumed once.  The iterator only ever loses lines
\* from its front, so that no line is seen twice.  A step of the parser
\* classifies the first surviving line left; a line that is no key/value line
\* takes that line alone, a key/value line takes with it the lines get_balanced
\* pulls as the continuation of its value, whatever their shape, and the next
\* step classifies the surviving line right behind the last of them.  The
\* input is taken to be at its end only when no surviving line is left.
C16_Step ==
    /\ IsSuffix(lines', lines)
    /\ Classifying =>
           /\ Surviving(PulledNow) # <<>>
           /\ trim(Surviving(PulledNow)[1]) = line
           /\ ~IsKeyValueLine(line) =>
                  Len(Surviving(PulledNow)) = 1 /\ lines' = after_next(lines)
           /\ IsKeyValueLine(line) =>
                  lines' = get_balanced(From(line, find(line, <<"=">>) + 1),
                                        after_next(lines)).lines
           /\ pc' = "loop" => Survives(PulledNow[Len(PulledNow)])
    /\ (pc = "loop" /\ ~Classifying) =>
           /\ pc' = "done"
           /\ Surviving(lines) = <<>>
Uncommented(ls) == [i \in DOMAIN ls |-> CutAtHash(trim(ls[i]))]
\* Ok or Err, and the value less its white space, of what get_balanced
\* returned: a line cut at its `#` keeps the blanks in front of the `#`, which
\* the iterator trims from a line that ends there.
Outcome(r) == [ok |-> r.ok, value |-> SelectSeq(r.value, LAMBDA c : c \notin WhiteSpace)]

\* C17: of every line get_balanced consumes, the first and each line it
\* pulls, the text from the first `#` on, inside a string or not, is dropped:
\* `result` takes the line cut at its `#`, no `#` is ever among the bytes the
\* for loop goes through, and get_balanced returns, Ok or Err and the value,
\* what it returns on the same lines with those texts taken out beforehand
\* (white space apart).
C17_Step ==
    /\ (Classifying /\ gb_pc = "idle" /\ IsKeyValueLine(line)) =>
           /\ result' = CutAtHash(From(line, find(line, <<"=">>) + 1))
           /\ bytes' = result'
           /\ \A g \in {CallState'} :
                  Outcome(ResumeFrom(g)) =
                      Outcome(get_balanced(CutAtHash(From(line, find(line, <<"=">>) + 1)),
                                           Uncommented(after_next(lines))))
    /\ (gb_pc = "scan" /\ lines' # lines /\ gb_pc' = "scan") =>
           /\ Len(Surviving(PulledNow)) = 1
           /\ bytes' = CutAtHash(trim(Surviving(PulledNow)[1]))
           /\ result' = result \o bytes'
    /\ gb_pc = "scan" =>
           \A g \in {CallState} : \A h \in {CallState'} :
               Outcome(ResumeFrom(h)) = Outcome(ResumeFrom(g))
C17_CommentsStripped ==
    /\ [](~contains(bytes, <<"#">>) /\ ~contains(result, <<"#">>))
    /\ [][C17_Step]_vars
\* A value of three lines returned, the second with a comment behind a string.
C17_Witness ==
    /\ gb_pc = "Ok"
    /\ Len(Pulled) = 3
    /\ contains(Pulled[2], <<"\"",","," ","#"," ","x","]">>)
    /\ result = <<" ","[","\"","b","a","r","\"",","," ","]">>

\* A trimmed line that starts with a marker followed by what is no space.
IsMarkerNoise(l) ==
    /\ starts_with(l, <<"#","#">>) \/ starts_with(l, <<"#","!">>)
    /\ Len(l) > 2 /\ l[3] # " "
\* the state of the parser: the blocks, the table, the defaults, the Entries
ParserState == <<top_comment, current_comment, current_table, default_features, features>>

\* C18: a classified line that starts with `##` or `#!` followed by a
\* character that is no space leaves the parser state as it is and raises no
\* error, an Attached block pending or not; a blank line and a plain `#`
\* comment are never classified, and the end of the input behind them leaves
\* the parser state as it is; the bare `##` is a doc comment of empty content
\* that adds a line to the Attached block, and the bare `#!` one that adds a
\* line to the Grouping block (with an Attached block pending it is, as every
\* Grouping doc comment, the "Cannot mix" error).
C18_Step ==
    /\ (Classifying /\ IsMarkerNoise(line)) =>
           /\ UNCHANGED ParserState
           /\ pc' = "loop" /\ ret' = ret
    /\ Classifying =>
           /\ line # <<>>
           /\ starts_with(line, <<"#">>) =>
                  (starts_with(line, <<"#","#">>) \/ starts_with(line, <<"#","!">>))
    /\ (pc = "loop" /\ ~Classifying) => UNCHANGED ParserState
    /\ (Classifying /\ line = <<"#","#">>) =>
           /\ current_comment' = current_comment \o <<" ","\n">>
           /\ UNCHANGED <<top_comment, current_table, default_features, features>>
           /\ pc' = "loop"
    /\ (Classifying /\ line = <<"#","!">>) =>
           IF current_comment = <<>>
           THEN /\ top_comment' = top_comment \o <<"\n">>
                /\ UNCHANGED <<current_comment, current_table, default_features, features>>
                /\ pc' = "loop"
           ELSE FailedWith(ret', <<"C","a","n","n","o","t"," ","m","i","x">>)
C18_MarkerNoise == [][C18_Step]_vars
\* `#!x` classified with an Attached block pending: no error, the block as it was.
C18_Witness ==
    /\ pc = "loop" /\ ret.kind = "None"
    /\ Len(Pulled) = 2
    /\ trim(Pulled[1]) = <<"#","#">> /\ trim(Pulled[2]) = <<"#","!","x">>
    /\ current_comment = <<" ","\n">>
    /\ top_comment = <<>>
=============================================================================
